---- MODULE Spec2Model ----
(***************************************************************************)
(* Model of fuzzy_dates.py: the FuzzyDate value type (a str subclass whose *)
(* construction is normalised by the metaclass CustomMeta), its display    *)
(* formatting, its range resolution, and FuzzyDateField.from_db_value.     *)
(*                                                                         *)
(* Python strings are sequences of one-character strings, so that          *)
(* formatting, parsing and lexicographic comparison are computed           *)
(* character by character.  Python values that may be None, an int or a    *)
(* str are records [t, i, s].                                              *)
(***************************************************************************)
EXTENDS Integers, Sequences, FiniteSets, TLC

\* ------------------------------------------------------------------------
\* Bounds of the explored inputs
\* ------------------------------------------------------------------------

\* largest number of superfluous leading zeros in a y/m/d string field
MaxPad == 1

\* ------------------------------------------------------------------------
\* Characters and strings
\* ------------------------------------------------------------------------

Digits == <<"0", "1", "2", "3", "4", "5", "6", "7", "8", "9">>

IsDigit(c) == \E k \in 1..10 : Digits[k] = c

DigitVal(c) == (CHOOSE k \in 1..10 : Digits[k] = c) - 1

IsSep(c) == c \in {".", "-", "/"}

\* code point of a character (ASCII), the key of str comparison
Ord(c) ==
    CASE c = "\n" -> 10
      [] c = "-" -> 45
      [] c = "." -> 46
      [] c = "/" -> 47
      [] IsDigit(c) -> 48 + DigitVal(c)
      [] OTHER -> 120

RECURSIVE NatToStr(_)
NatToStr(n) ==
    IF n < 10 THEN <<Digits[n + 1]>>
    ELSE NatToStr(n \div 10) \o <<Digits[(n % 10) + 1]>>

\* str(n) / f"{n}" of an int
IntToStr(n) == IF n < 0 THEN <<"-">> \o NatToStr(0 - n) ELSE NatToStr(n)

RECURSIVE DigitsToNat(_)
DigitsToNat(s) ==
    IF s = <<>> THEN 0
    ELSE 10 * DigitsToNat(SubSeq(s, 1, Len(s) - 1)) + DigitVal(s[Len(s)])

RECURSIVE StripWs(_)
StripWs(s) ==
    IF s = <<>> THEN s
    ELSE IF s[1] = "\n" THEN StripWs(Tail(s))
    ELSE IF s[Len(s)] = "\n" THEN StripWs(SubSeq(s, 1, Len(s) - 1))
    ELSE s

AllDigits(s) == \A k \in 1..Len(s) : IsDigit(s[k])

ParseDigits(body) ==
    IF body = <<>> \/ ~AllDigits(body)
    THEN [ok |-> FALSE, n |-> 0]
    ELSE [ok |-> TRUE, n |-> DigitsToNat(body)]

Negated(r) == [ok |-> r.ok, n |-> 0 - r.n]

ParseSigned(t) ==
    IF t # <<>> /\ t[1] = "-" THEN Negated(ParseDigits(Tail(t))) ELSE ParseDigits(t)

\* int(s) of a str: surrounding whitespace and one sign are allowed, the
\* rest must be a non-empty run of decimal digits; otherwise ValueError.
ParseInt(s) == ParseSigned(StripWs(s))

RECURSIVE Zeros(_)
Zeros(n) == IF n <= 0 THEN <<>> ELSE <<"0">> \o Zeros(n - 1)

\* str.lstrip(chars): drop the leading characters that occur in chars
RECURSIVE LStrip(_, _)
LStrip(s, chars) ==
    IF s # <<>> /\ (\E k \in 1..Len(chars) : chars[k] = s[1])
    THEN LStrip(Tail(s), chars)
    ELSE s

\* sep.join(parts)
RECURSIVE Join(_, _)
Join(sep, parts) ==
    IF parts = <<>> THEN <<>>
    ELSE IF Len(parts) = 1 THEN parts[1]
    ELSE parts[1] \o sep \o Join(sep, Tail(parts))

\* three-way comparison of two str values by code point: -1, 0 or 1
RECURSIVE StrCmp(_, _)
StrCmp(s, t) ==
    IF s = <<>> /\ t = <<>> THEN 0
    ELSE IF s = <<>> THEN 0 - 1
    ELSE IF t = <<>> THEN 1
    ELSE IF Ord(s[1]) < Ord(t[1]) THEN 0 - 1
    ELSE IF Ord(s[1]) > Ord(t[1]) THEN 1
    ELSE StrCmp(Tail(s), Tail(t))

\* ------------------------------------------------------------------------
\* Python values: None, int, str
\* ------------------------------------------------------------------------

PyNone == [t |-> "none", i |-> 0, s |-> <<>>]

PyInt(n) == [t |-> "int", i |-> n, s |-> <<>>]

PyStr(s) == [t |-> "str", i |-> 0, s |-> s]

\* truth value of a Python value: None, 0 and "" are false
Truthy(x) ==
    CASE x.t = "none" -> FALSE
      [] x.t = "int" -> x.i # 0
      [] OTHER -> x.s # <<>>

\* int(x)
ToInt(x) ==
    IF x.t = "int" THEN [ok |-> TRUE, n |-> x.i] ELSE ParseInt(x.s)

\* f"{x}"
Format(x) == IF x.t = "int" THEN IntToStr(x.i) ELSE x.s

\* f"{x:>02}": right-aligned in a field of width 2, filled with "0"
FormatPad2(x) == Zeros(2 - Len(Format(x))) \o Format(x)

\* ------------------------------------------------------------------------
\* Calendar (datetime.date and calendar.monthrange as the code uses them)
\* ------------------------------------------------------------------------

MINYEAR == 1

MAXYEAR == 9999

isleap(y) == y % 4 = 0 /\ (y % 100 # 0 \/ y % 400 = 0)

mdays == <<31, 28, 31, 30, 31, 30, 31, 31, 30, 31, 30, 31>>

\* calendar.monthrange(y, m)[1], for m in 1..12
monthrange(y, m) == mdays[m] + (IF m = 2 /\ isleap(y) THEN 1 ELSE 0)

\* date(year=y, month=m, day=d) returns (TRUE) or raises ValueError (FALSE)
date(y, m, d) ==
    /\ MINYEAR <= y /\ y <= MAXYEAR
    /\ 1 <= m /\ m <= 12
    /\ 1 <= d /\ d <= monthrange(y, m)

\* ------------------------------------------------------------------------
\* Errors
\* ------------------------------------------------------------------------

NoError == "none"

MalformedInput == "MalformedInput"

InvalidInputType == "InvalidInputType"

MissingYear == "MissingYear"

DayWithoutMonth == "DayWithoutMonth"

YearOutOfRange == "YearOutOfRange"

InvalidCalendarDate == "InvalidCalendarDate"

InvalidLiteral == "InvalidLiteral"

InvalidRangeDefault == "InvalidRangeDefault"

\* ------------------------------------------------------------------------
\* CustomMeta.__call__ : normalisation and validation of the arguments
\* ------------------------------------------------------------------------

YearMin == 1000

YearMax == 9999

fuzzy_value == <<"0", "0">>

NoMatch == [ok |-> FALSE, year |-> PyNone, month |-> PyNone, day |-> PyNone]

\* faulty variant: the month and day groups must spell a month 01-12 and a day 01-31
PatternShape_strict(core) ==
    /\ Len(core) \in {4, 7, 10}
    /\ AllDigits(SubSeq(core, 1, 4))
    /\ Len(core) >= 7 => (/\ IsSep(core[5])
                          /\ AllDigits(SubSeq(core, 6, 7))
                          /\ DigitsToNat(SubSeq(core, 6, 7)) \in 1..12)
    /\ Len(core) = 10 => (/\ IsSep(core[8])
                          /\ AllDigits(SubSeq(core, 9, 10))
                          /\ DigitsToNat(SubSeq(core, 9, 10)) \in 1..31)

\* (\d{4})(?:[.\-/](\d{2})(?:[.\-/](\d{2}))?)? spans the whole of core
PatternShape(core) ==
    /\ Len(core) \in {4, 7, 10}
    /\ AllDigits(SubSeq(core, 1, 4))
    /\ Len(core) >= 7 => (IsSep(core[5]) /\ AllDigits(SubSeq(core, 6, 7)))
    /\ Len(core) = 10 => (IsSep(core[8]) /\ AllDigits(SubSeq(core, 9, 10)))

\* m.groups(): an unmatched group is None
Groups(core) ==
    IF ~PatternShape(core) THEN NoMatch
    ELSE [ok |-> TRUE,
          year |-> PyStr(SubSeq(core, 1, 4)),
          month |-> IF Len(core) >= 7 THEN PyStr(SubSeq(core, 6, 7)) ELSE PyNone,
          day |-> IF Len(core) = 10 THEN PyStr(SubSeq(core, 9, 10)) ELSE PyNone]

\* DATE_PATTERN.match(s): (\d{4})(?:[.\-/](\d{2})(?:[.\-/](\d{2}))?)?$
\* match() anchors at the start; $ matches at the end of the string or
\* just before a single trailing newline.
DATE_PATTERN(s) ==
    Groups(IF s # <<>> /\ s[Len(s)] = "\n" THEN SubSeq(s, 1, Len(s) - 1) ELSE s)

\* A constructor argument list: the positional seed and the keywords y, m, d.
\* seed.t is "none", "str", "date" (date or datetime) or "other" (a truthy
\* object of any other type).
NoSeed == [t |-> "none", s |-> <<>>, d |-> <<0, 0, 0>>]

StrSeed(s) == [t |-> "str", s |-> s, d |-> <<0, 0, 0>>]

DateSeed(y, m, d) == [t |-> "date", s |-> <<>>, d |-> <<y, m, d>>]

OtherSeed == [t |-> "other", s |-> <<>>, d |-> <<0, 0, 0>>]

Args(seed, y, m, d) == [seed |-> seed, y |-> y, m |-> m, d |-> d]

SeedTruthy(seed) ==
    CASE seed.t = "none" -> FALSE
      [] seed.t = "str" -> seed.s # <<>>
      [] OTHER -> TRUE

Fields(err, year, month, day) == [err |-> err, year |-> year, month |-> month, day |-> day]

\* lines 43-46: the groups of the match, or the malformed-string error
FromMatch(m) ==
    IF m.ok THEN Fields(NoError, m.year, m.month, m.day)
    ELSE Fields(MalformedInput, PyNone, PyNone, PyNone)

\* lines 41-55: pick year, month, day from the seed or from the keywords
SelectFields(args) ==
    IF SeedTruthy(args.seed)
    THEN IF args.seed.t = "str" THEN FromMatch(DATE_PATTERN(args.seed.s))
         ELSE IF args.seed.t = "date"
         THEN Fields(NoError, PyInt(args.seed.d[1]), PyInt(args.seed.d[2]), PyInt(args.seed.d[3]))
         ELSE Fields(InvalidInputType, PyNone, PyNone, PyNone)
    ELSE Fields(NoError, args.y, args.m, args.d)

\* lines 64-65: month or fuzzy_value, day or fuzzy_value
OrFuzzy(x) == IF Truthy(x) THEN x ELSE PyStr(fuzzy_value)

\* lines 71-72: int(x) if x != fuzzy_value else 1
IntOrOne(x) == IF x # PyStr(fuzzy_value) THEN ToInt(x) ELSE [ok |-> TRUE, n |-> 1]

\* faulty variant: the calendar check runs before the year-range check
CheckDate_dateFirst(year, month, day, int_year, int_month, int_day) ==
    IF ~int_year.ok \/ ~int_month.ok \/ ~int_day.ok
    THEN Fields(InvalidLiteral, year, month, day)
    ELSE IF ~date(int_year.n, int_month.n, int_day.n)
    THEN Fields(InvalidCalendarDate, year, month, day)
    ELSE IF int_year.n < YearMin \/ int_year.n > YearMax
    THEN Fields(YearOutOfRange, year, month, day)
    ELSE Fields(NoError, year, month, day)

\* lines 67-82: the int() conversions, then the year range, then date()
CheckDate(year, month, day, int_year, int_month, int_day) ==
    IF ~int_year.ok \/ ~int_month.ok \/ ~int_day.ok
    THEN Fields(InvalidLiteral, year, month, day)
    ELSE IF int_year.n < YearMin \/ int_year.n > YearMax
    THEN Fields(YearOutOfRange, year, month, day)
    ELSE IF ~date(int_year.n, int_month.n, int_day.n)
    THEN Fields(InvalidCalendarDate, year, month, day)
    ELSE Fields(NoError, year, month, day)

\* lines 63-82, with month and day already replaced by "00" where falsy
Convert(year, month, day) ==
    CheckDate(year, month, day, ToInt(year), IntOrOne(month), IntOrOne(day))

\* lines 57-82: the validation rules, in the order the code applies them
Validate(year, month, day) ==
    IF ~Truthy(year) THEN Fields(MissingYear, year, month, day)
    ELSE IF Truthy(day) /\ ~Truthy(month) THEN Fields(DayWithoutMonth, year, month, day)
    ELSE Convert(year, OrFuzzy(month), OrFuzzy(day))

\* line 84: the keywords handed on to FuzzyDate.__new__ and __init__
Kwargs(year, month, day) ==
    [y |-> Format(year), m |-> FormatPad2(month), d |-> FormatPad2(day)]

\* ------------------------------------------------------------------------
\* FuzzyDate
\* ------------------------------------------------------------------------

\* An instance: the str value and the attributes set by __init__.
Instance(value, year, month, day) ==
    [value |-> value, year |-> year, month |-> month, day |-> day]

NoInstance == Instance(<<>>, <<>>, <<>>, <<>>)

\* FuzzyDate.__new__: "{y}.{m}.{d}".format(**kwargs)
FuzzyDate_new(kw) == kw.y \o <<".">> \o kw.m \o <<".">> \o kw.d

\* FuzzyDate.__new__ followed by FuzzyDate.__init__
FuzzyDate_init(kw) ==
    Instance(FuzzyDate_new(kw),
             kw.y,
             IF kw.m # fuzzy_value THEN kw.m ELSE <<>>,
             IF kw.d # fuzzy_value THEN kw.d ELSE <<>>)

Result(err, inst) == [err |-> err, inst |-> inst]

\* lines 84-85: format the keywords and create the instance
Create(v) ==
    IF v.err # NoError THEN Result(v.err, NoInstance)
    ELSE Result(NoError, FuzzyDate_init(Kwargs(v.year, v.month, v.day)))

\* lines 57-85 on the selected fields
Construct(f) ==
    IF f.err # NoError THEN Result(f.err, NoInstance)
    ELSE Create(Validate(f.year, f.month, f.day))

\* CustomMeta.__call__: FuzzyDate(seed, y=.., m=.., d=..)
FuzzyDate(args) == Construct(SelectFields(args))

as_list(self) == <<self.year, self.month, self.day>>

is_fuzzy(self) == self.day = <<>>

\* a or b on two str values
OrElse(a, b) == IF a # <<>> THEN a ELSE b

\* get_start(): missing month and day become "01"
get_start(self) ==
    FuzzyDate(Args(NoSeed, PyStr(self.year),
                   PyStr(OrElse(self.month, <<"0", "1">>)),
                   PyStr(OrElse(self.day, <<"0", "1">>))))

\* str(calendar.monthrange(int(year), int(month))[1]); int() raises
\* ValueError on a str that is no number, monthrange on a month outside 1..12
LastDay(y, m) ==
    IF ~y.ok \/ ~m.ok THEN [err |-> InvalidLiteral, s |-> <<>>]
    ELSE IF m.n < 1 \/ m.n > 12 THEN [err |-> InvalidCalendarDate, s |-> <<>>]
    ELSE [err |-> NoError, s |-> IntToStr(monthrange(y.n, m.n))]

\* self.day or str(monthrange(..)[1]): the right operand is evaluated only
\* when day is empty
DayOrLast(year, month, day) ==
    IF day # <<>> THEN [err |-> NoError, s |-> day]
    ELSE LastDay(ParseInt(year), ParseInt(month))

\* FuzzyDate(y=year, m=month, d=day) once day is known
EndWith(year, month, day) ==
    IF day.err # NoError THEN Result(day.err, NoInstance)
    ELSE FuzzyDate(Args(NoSeed, PyStr(year), PyStr(month), PyStr(day.s)))

\* the resolved year, month and day of get_end
EndOf(year, month, day) == EndWith(year, month, DayOrLast(year, month, day))

\* faulty variant: a missing month resolves to "11"
get_end_november(self) ==
    EndOf(self.year, OrElse(self.month, <<"1", "1">>), self.day)

\* get_end(): a missing month becomes "12", a missing day the last day of
\* the month
get_end(self) ==
    EndOf(self.year, OrElse(self.month, <<"1", "2">>), self.day)

RangeOf(s, e) ==
    IF s.err # NoError THEN [err |-> s.err, first |-> NoInstance, second |-> NoInstance]
    ELSE IF e.err # NoError THEN [err |-> e.err, first |-> NoInstance, second |-> NoInstance]
    ELSE [err |-> NoError, first |-> s.inst, second |-> e.inst]

\* get_range(): (get_start(), get_end()); the first error propagates
get_range(self) == RangeOf(get_start(self), get_end(self))

start == <<"s", "t", "a", "r", "t">>

end == <<"e", "n", "d">>

NoDate == <<>>

\* date(y, m, d) on the converted components
MakeDate(y, m, d) ==
    IF ~y.ok \/ ~m.ok \/ ~d.ok THEN [err |-> InvalidLiteral, date |-> NoDate]
    ELSE IF ~date(y.n, m.n, d.n) THEN [err |-> InvalidCalendarDate, date |-> NoDate]
    ELSE [err |-> NoError, date |-> <<y.n, m.n, d.n>>]

\* date(*[int(v) for v in non_fuzzy.as_list()])
ToDate(inst) == MakeDate(ParseInt(inst.year), ParseInt(inst.month), ParseInt(inst.day))

\* line 129 on the result of get_start() or get_end()
Resolved(r) ==
    IF r.err # NoError THEN [err |-> r.err, date |-> NoDate] ELSE ToDate(r.inst)

\* faulty variant: the default is checked before the fuzziness
as_date_checkFirst(self, default) ==
    IF default # PyNone /\ default # PyStr(start) /\ default # PyStr(end)
    THEN [err |-> InvalidRangeDefault, date |-> NoDate]
    ELSE IF is_fuzzy(self)
    THEN IF default = PyNone THEN [err |-> NoError, date |-> NoDate]
         ELSE IF default = PyStr(start) THEN Resolved(get_start(self))
         ELSE Resolved(get_end(self))
    ELSE ToDate(self)

\* as_date(default): NoDate with no error stands for the returned None
as_date(self, default) ==
    IF is_fuzzy(self)
    THEN IF default = PyNone THEN [err |-> NoError, date |-> NoDate]
         ELSE IF default = PyStr(start) THEN Resolved(get_start(self))
         ELSE IF default = PyStr(end) THEN Resolved(get_end(self))
         ELSE [err |-> InvalidRangeDefault, date |-> NoDate]
    ELSE ToDate(self)

\* FuzzyDateField.from_db_value(value, ...): FuzzyDate(value) unless value
\* is empty, in which case value itself is returned
from_db_value(value) ==
    IF value # <<>> THEN FuzzyDate(Args(StrSeed(value), PyNone, PyNone, PyNone))
    ELSE Result(NoError, NoInstance)

\* ------------------------------------------------------------------------
\* State
\* ------------------------------------------------------------------------

VARIABLES
    DATE_FIELD_ORDER,      \* module global: the display order, e.g. <<"m","d","y">>
    DATE_FIELD_SEPARATOR,  \* module global: the display separator
    TRIM_CHAR,             \* module global: "0" when leading zeros are trimmed, else ""
    args,                  \* the arguments of the constructor call
    pc,                    \* "init", then "built" or "failed"
    self,                  \* the constructed instance
    args2,                 \* the arguments of a second constructor call
    pc2,                   \* "none" when there is no second call
    other,                 \* the second instance
    ret                    \* the last call and what it returned or raised

vars == <<DATE_FIELD_ORDER, DATE_FIELD_SEPARATOR, TRIM_CHAR, args, pc, self,
          args2, pc2, other, ret>>

\* faulty variant: absent components are not filtered out before joining
FuzzyDate_str_noFilter(inst) ==
    LET data_dict(el) == CASE el = "y" -> inst.year
                           [] el = "m" -> inst.month
                           [] OTHER -> inst.day
        parts == [k \in 1..Len(DATE_FIELD_ORDER) |->
                     LStrip(data_dict(DATE_FIELD_ORDER[k]), TRIM_CHAR)]
    IN  Join(DATE_FIELD_SEPARATOR, parts)

\* FuzzyDate.__str__
FuzzyDate_str(inst) ==
    LET data_dict(el) == CASE el = "y" -> inst.year
                           [] el = "m" -> inst.month
                           [] OTHER -> inst.day
        present == SelectSeq(DATE_FIELD_ORDER, LAMBDA el : data_dict(el) # <<>>)
        parts == [k \in 1..Len(present) |-> LStrip(data_dict(present[k]), TRIM_CHAR)]
    IN  Join(DATE_FIELD_SEPARATOR, parts)

\* ------------------------------------------------------------------------
\* Inputs
\* ------------------------------------------------------------------------

\* year, month and day numbers around every boundary of the validation
\* and of the leap-year rule
YearInts == {0, 999, 1000, 1900, 2000, 2001, 2004, 9999, 10000}

MonthInts == {0, 1, 2, 4, 12, 13}

DayInts == {0, 1, 28, 29, 30, 31, 32}

Seps == {".", "-", "/"}

\* the decimal numeral of k, zero-padded to width w
Pad(k, w) == Zeros(w - Len(IntToStr(k))) \o IntToStr(k)

\* numbers handed over as int, or no value at all
IntValues(ints) == {PyNone} \cup {PyInt(k) : k \in ints}

\* numbers handed over as str, with up to MaxPad superfluous leading zeros;
\* the empty str; a str that is no number
StrValues(ints) ==
    {PyStr(<<>>), PyStr(<<"x">>)}
    \cup {PyStr(Zeros(p) \o IntToStr(k)) : k \in ints, p \in 0..MaxPad}

\* FuzzyDate(y=.., m=.., d=..)
KwInputs(ys, ms, ds) ==
    {Args(NoSeed, y, m, d) : y \in ys, m \in ms, d \in ds}

\* FuzzyDate("yyyy"), FuzzyDate("yyyy.mm"), FuzzyDate("yyyy.mm.dd")
PatternSeeds ==
    LET ys == {Pad(k, 4) : k \in {j \in YearInts : j <= 9999}}
        ms == {Pad(k, 2) : k \in MonthInts}
        ds == {Pad(k, 2) : k \in DayInts}
        ab == {<<a, a>> : a \in Seps} \cup {<<"-", "/">>}
    IN  ys
        \cup {y \o <<a>> \o m : y \in ys, a \in Seps, m \in ms}
        \cup {y \o <<x[1]>> \o m \o <<x[2]>> \o d :
                 y \in ys, m \in ms, x \in ab, d \in ds}

\* strings around the edges of the pattern
EdgeSeeds ==
    LET y == Pad(2000, 4)
        m == Pad(2, 2)
    IN  {IntToStr(999), IntToStr(10000), <<"x">>,
         y \o <<".">> \o IntToStr(1),
         y \o <<"x">> \o m,
         y \o <<".">> \o m \o <<".">> \o IntToStr(1),
         y \o <<".">> \o m \o <<"x">>,
         y \o <<".">> \o m \o <<".">>,
         y \o <<"\n">>,
         y \o <<"-">> \o m \o <<"\n">>,
         y \o <<"\n", "\n">>,
         <<"\n">> \o y}

SeedInputs ==
    {Args(StrSeed(s), PyNone, PyNone, PyNone) : s \in PatternSeeds \cup EdgeSeeds}

\* FuzzyDate(date(..)): a date object is always a real calendar date
DateInputs ==
    {Args(DateSeed(x[1], x[2], x[3]), PyNone, PyNone, PyNone) :
        x \in {z \in YearInts \X MonthInts \X DayInts : date(z[1], z[2], z[3])}}

\* a seed of another type; an empty seed next to keywords; a seed that
\* shadows the keywords
MixedInputs ==
    {Args(OtherSeed, PyNone, PyNone, PyNone),
     Args(StrSeed(<<>>), PyNone, PyNone, PyNone),
     Args(StrSeed(<<>>), PyInt(2000), PyInt(2), PyNone),
     Args(StrSeed(Pad(2000, 4)), PyInt(1900), PyInt(2), PyInt(1)),
     Args(DateSeed(2000, 2, 29), PyInt(1900), PyNone, PyNone)}

Inputs ==
    KwInputs(IntValues(YearInts) \cup StrValues({999, 2000}),
             IntValues(MonthInts) \cup StrValues({0, 2, 13}),
             IntValues(DayInts) \cup StrValues({0, 1, 30}))
    \cup SeedInputs \cup DateInputs \cup MixedInputs

\* inputs of the display runs: every presence pattern, padded or not
DisplayInputs ==
    KwInputs({PyInt(2021)} \cup StrValues({2021}),
             IntValues({3}) \cup StrValues({12}),
             IntValues({15}) \cup StrValues({5}))
    \cup {Args(StrSeed(Pad(2021, 4) \o <<a>> \o Pad(m, 2) \o <<a>> \o Pad(15, 2)),
               PyNone, PyNone, PyNone) : a \in Seps, m \in {0, 3}}

\* inputs of the comparison runs
PairInputs ==
    KwInputs({PyInt(1000), PyInt(1985)} \cup StrValues({1000}),
             IntValues({2}) \cup StrValues({2}),
             IntValues({14}) \cup StrValues({14}))

NoArgs == Args(NoSeed, PyNone, PyNone, PyNone)

Defaults == {PyNone, PyStr(start), PyStr(end), PyStr(<<>>), PyStr(<<"x">>), PyInt(0)}

Orders ==
    {<<"y", "m", "d">>, <<"y", "d", "m">>, <<"m", "y", "d">>,
     <<"m", "d", "y">>, <<"d", "y", "m">>, <<"d", "m", "y">>}

\* ------------------------------------------------------------------------
\* Initial states
\* ------------------------------------------------------------------------

Ret(op, arg, err, text, dt, first, second, cmp) ==
    [op |-> op, arg |-> arg, err |-> err, text |-> text, date |-> dt,
     first |-> first, second |-> second, cmp |-> cmp]

NoRet == Ret("none", PyNone, NoError, <<>>, NoDate, NoInstance, NoInstance, 0)

\* lines 14, 15 and 26 with no FUZZY_DATE_* setting: "mdy", "/", no trimming
DefaultSettings ==
    /\ DATE_FIELD_ORDER = <<"m", "d", "y">>
    /\ DATE_FIELD_SEPARATOR = <<"/">>
    /\ TRIM_CHAR = <<>>

\* every setting that passes the checks of lines 29-33
AnySettings ==
    /\ DATE_FIELD_ORDER \in Orders
    /\ DATE_FIELD_SEPARATOR \in {<<a>> : a \in Seps}
    /\ TRIM_CHAR \in {<<>>, <<"0">>}

Start(in1, in2) ==
    /\ args \in in1
    /\ pc = "init"
    /\ self = NoInstance
    /\ args2 \in in2
    /\ pc2 = IF args2 = NoArgs THEN "none" ELSE "init"
    /\ other = NoInstance
    /\ ret = NoRet

Init == DefaultSettings /\ Start(Inputs, {NoArgs})

InitDisplay == AnySettings /\ Start(DisplayInputs, {NoArgs})

InitPair == DefaultSettings /\ Start(PairInputs, PairInputs)

\* ------------------------------------------------------------------------
\* Actions
\* ------------------------------------------------------------------------

Settings == <<DATE_FIELD_ORDER, DATE_FIELD_SEPARATOR, TRIM_CHAR>>

\* what a constructor call leaves behind
NewState(r) == IF r.err = NoError THEN "built" ELSE "failed"

NewRet(r) == Ret("new", PyNone, r.err, <<>>, NoDate, r.inst, NoInstance, 0)

\* a method call that returns an instance
InstRet(op, arg, r) == Ret(op, arg, r.err, <<>>, NoDate, r.inst, NoInstance, 0)

DateRet(default, r) ==
    Ret("as_date", default, r.err, <<>>, r.date, NoInstance, NoInstance, 0)

RangeRet(r) == Ret("get_range", PyNone, r.err, <<>>, NoDate, r.first, r.second, 0)

\* self = FuzzyDate(seed, y=.., m=.., d=..)
New ==
    /\ pc = "init"
    /\ \E r \in {FuzzyDate(args)} :
         /\ pc' = NewState(r)
         /\ self' = r.inst
         /\ ret' = NewRet(r)
    /\ UNCHANGED <<Settings, args, args2, pc2, other>>

\* other = FuzzyDate(seed, y=.., m=.., d=..)
NewOther ==
    /\ pc2 = "init"
    /\ \E r \in {FuzzyDate(args2)} :
         /\ pc2' = NewState(r)
         /\ other' = r.inst
         /\ ret' = NewRet(r)
    /\ UNCHANGED <<Settings, args, pc, self, args2>>

\* self < other, self == other, self > other: str comparison of the values
Compare ==
    /\ pc = "built"
    /\ pc2 = "built"
    /\ ret' = Ret("cmp", PyNone, NoError, <<>>, NoDate, self, other,
                  StrCmp(self.value, other.value))
    /\ UNCHANGED <<Settings, args, pc, self, args2, pc2, other>>

\* str(self)
Str ==
    /\ pc = "built"
    /\ ret' = Ret("str", PyNone, NoError, FuzzyDate_str(self), NoDate,
                  NoInstance, NoInstance, 0)
    /\ UNCHANGED <<Settings, args, pc, self, args2, pc2, other>>

\* self.as_date(default)
AsDate ==
    /\ pc = "built"
    /\ \E default \in Defaults : ret' = DateRet(default, as_date(self, default))
    /\ UNCHANGED <<Settings, args, pc, self, args2, pc2, other>>

\* self.get_start()
GetStart ==
    /\ pc = "built"
    /\ ret' = InstRet("get_start", PyNone, get_start(self))
    /\ UNCHANGED <<Settings, args, pc, self, args2, pc2, other>>

\* self.get_end()
GetEnd ==
    /\ pc = "built"
    /\ ret' = InstRet("get_end", PyNone, get_end(self))
    /\ UNCHANGED <<Settings, args, pc, self, args2, pc2, other>>

\* self.get_range()
GetRange ==
    /\ pc = "built"
    /\ ret' = RangeRet(get_range(self))
    /\ UNCHANGED <<Settings, args, pc, self, args2, pc2, other>>

\* field.from_db_value(value, ...) with the stored value of self
FromDbValue ==
    /\ pc = "built"
    /\ ret' = InstRet("from_db_value", PyStr(self.value), from_db_value(self.value))
    /\ UNCHANGED <<Settings, args, pc, self, args2, pc2, other>>

Next ==
    \/ New
    \/ Str
    \/ AsDate
    \/ GetStart
    \/ GetEnd
    \/ GetRange
    \/ FromDbValue

NextPair ==
    \/ New
    \/ NewOther
    \/ Compare

Spec == Init /\ [][Next]_vars

SpecDisplay == InitDisplay /\ [][Next]_vars

SpecPair == InitPair /\ [][NextPair]_vars

\* ------------------------------------------------------------------------
\* Properties
\* ------------------------------------------------------------------------

Built == pc = "built"

\* the number a component string spells; an absent component counts as 0
Num(s) == DigitsToNat(s)

\* the last day of month m of year y under the Gregorian rules
GregorianLastDay(y, m) ==
    IF m \in {4, 6, 9, 11} THEN 30
    ELSE IF m # 2 THEN 31
    ELSE IF y % 400 = 0 \/ (y % 4 = 0 /\ y % 100 # 0) THEN 29
    ELSE 28

\* month m exists and has a day d in year y
RealDate(y, m, d) == m \in 1..12 /\ d \in 1..GregorianLastDay(y, m)

\* s is four digits, a dot, two digits, a dot, two digits
CanonicalShape(s) ==
    /\ Len(s) = 10
    /\ \A k \in {1, 2, 3, 4, 6, 7, 9, 10} : IsDigit(s[k])
    /\ s[5] = "." /\ s[8] = "."

\* C1: every constructed instance has a year, and has a month whenever it
\* has a day.
C1_DayImpliesMonth ==
    Built => (self.year # <<>> /\ (self.day # <<>> => self.month # <<>>))

\* C2: the canonical value of every constructed instance is exactly the 10
\* characters YYYY.MM.DD: the year in 4 digits, the month and the day in 2
\* zero-padded digits each, "00" standing for an absent month or day.
C2_CanonicalForm ==
    Built =>
        /\ CanonicalShape(self.value)
        /\ SubSeq(self.value, 1, 4) = self.year
        /\ SubSeq(self.value, 6, 7) = (IF self.month = <<>> THEN <<"0", "0">> ELSE self.month)
        /\ SubSeq(self.value, 9, 10) = (IF self.day = <<>> THEN <<"0", "0">> ELSE self.day)

\* three-way comparison of (year, month-or-0, day-or-0) as numbers
TripleCmp(a, b) ==
    LET ta == <<Num(a.year), Num(a.month), Num(a.day)>>
        tb == <<Num(b.year), Num(b.month), Num(b.day)>>
        k == IF ta[1] # tb[1] THEN 1 ELSE IF ta[2] # tb[2] THEN 2 ELSE 3
    IN  IF ta[k] < tb[k] THEN 0 - 1 ELSE IF ta[k] > tb[k] THEN 1 ELSE 0

\* C3: comparing the canonical strings of two constructed instances gives
\* the same order as comparing their (year, month-or-0, day-or-0) triples.
C3_StringOrderIsDateOrder ==
    ret.op = "cmp" => ret.cmp = TripleCmp(self, other)

\* C4: constructing from the canonical string of a constructed instance
\* succeeds and gives the same value, year, month, day and fuzziness.
C4_RoundTrip ==
    ret.op = "from_db_value" =>
        /\ ret.err = NoError
        /\ ret.first.value = self.value
        /\ ret.first.year = self.year
        /\ ret.first.month = self.month
        /\ ret.first.day = self.day
        /\ is_fuzzy(ret.first) = is_fuzzy(self)

\* a component that was not given: None, the empty string or the integer 0
Absent(x) == x = PyNone \/ x = PyStr(<<>>) \/ x = PyInt(0)

\* a component that int() converts: an int or a non-empty run of digits
Convertible(x) == x.t = "int" \/ (x.t = "str" /\ x.s # <<>> /\ AllDigits(x.s))

NumOf(x) == IF x.t = "int" THEN x.i ELSE DigitsToNat(x.s)

\* month-or-1, day-or-1: a component that is not given, or is spelled "00",
\* counts as 1
OrOne(x) == IF Absent(x) \/ x = PyStr(<<"0", "0">>) THEN 1 ELSE NumOf(x)

RuleYearMissing(f) == Absent(f.year)

RuleDayWithoutMonth(f) == ~Absent(f.day) /\ Absent(f.month)

RuleNotCalendarDate(f) == ~RealDate(NumOf(f.year), OrOne(f.month), OrOne(f.day))

RuleYearOutOfRange(f) == NumOf(f.year) < 1000 \/ NumOf(f.year) > 9999

\* the constructor was called with the components f, to which the rules
\* can be applied
Validated(f) ==
    /\ ret.op = "new"
    /\ f.err = NoError
    /\ \A x \in {f.year, f.month, f.day} : Absent(x) \/ Convertible(x)

CalendarBeforeRange(f) ==
    Validated(f) =>
        ret.err = (IF RuleYearMissing(f) THEN MissingYear
                   ELSE IF RuleDayWithoutMonth(f) THEN DayWithoutMonth
                   ELSE IF RuleNotCalendarDate(f) THEN InvalidCalendarDate
                   ELSE IF RuleYearOutOfRange(f) THEN YearOutOfRange
                   ELSE NoError)

RangeBeforeCalendar(f) ==
    Validated(f) =>
        ret.err = (IF RuleYearMissing(f) THEN MissingYear
                   ELSE IF RuleDayWithoutMonth(f) THEN DayWithoutMonth
                   ELSE IF RuleYearOutOfRange(f) THEN YearOutOfRange
                   ELSE IF RuleNotCalendarDate(f) THEN InvalidCalendarDate
                   ELSE NoError)

\* C5 as stated: the error reported is that of the first violated rule in
\* the order year missing, day without month, invalid calendar date, year
\* out of range.
C5_CalendarBeforeRange == CalendarBeforeRange(SelectFields(args))

\* C5 amended: the error reported is that of the first violated rule in
\* the order year missing, day without month, year out of range, invalid
\* calendar date.
C5_RangeBeforeCalendar == RangeBeforeCalendar(SelectFields(args))

\* year 999 with month 13 was rejected as year out of range
C5_Witness ==
    /\ ret.op = "new"
    /\ args = Args(NoSeed, PyInt(999), PyInt(13), PyNone)
    /\ ret.err = YearOutOfRange

\* the seed is four digits, a separator, two digits, and the two digits
\* are neither a calendar month nor "00"
BadMonthSeed ==
    /\ ret.op = "new"
    /\ args.seed.t = "str"
    /\ Len(args.seed.s) = 7
    /\ \A k \in {1, 2, 3, 4, 6, 7} : IsDigit(args.seed.s[k])
    /\ args.seed.s[5] \in {".", "-", "/"}
    /\ Num(SubSeq(args.seed.s, 6, 7)) \notin 0..12

SeedYear == Num(SubSeq(args.seed.s, 1, 4))

\* C6 as stated: a string such as "2021-13" fails with MalformedInput.
C6_BadMonthIsMalformed ==
    BadMonthSeed => ret.err = MalformedInput

\* C6 amended: a string such as "2021-13" matches the pattern and fails
\* with the invalid-calendar-date error (with the year-out-of-range error
\* when its year is below 1000), never with MalformedInput.
C6_BadMonthIsInvalidDate ==
    BadMonthSeed =>
        ret.err = (IF SeedYear < 1000 THEN YearOutOfRange ELSE InvalidCalendarDate)

\* "2000-13" was rejected as an invalid calendar date
C6_Witness ==
    /\ ret.op = "new"
    /\ args.seed = StrSeed(<<"2", "0", "0", "0", "-", "1", "3">>)
    /\ ret.err = InvalidCalendarDate

\* C7: get_end() returns a non-fuzzy instance with the same year, the
\* month or 12, and the day or the last day of that month (Gregorian).
C7_GetEnd ==
    ret.op = "get_end" =>
        /\ ret.err = NoError
        /\ ~is_fuzzy(ret.first)
        /\ ret.first.year = self.year
        /\ ret.first.month = (IF self.month = <<>> THEN <<"1", "2">> ELSE self.month)
        /\ IF self.day # <<>> THEN ret.first.day = self.day
           ELSE /\ AllDigits(ret.first.day)
                /\ Num(ret.first.day) = GregorianLastDay(Num(self.year), Num(ret.first.month))
        /\ (self.month = <<>> /\ self.day = <<>>) => ret.first.day = <<"3", "1">>

\* get_end() of February 2000 ended on the 29th
C7_Witness ==
    /\ ret.op = "get_end"
    /\ self.value = <<"2", "0", "0", "0", ".", "0", "2", ".", "0", "0">>
    /\ ret.first.value = <<"2", "0", "0", "0", ".", "0", "2", ".", "2", "9">>

BadDefault ==
    /\ ret.op = "as_date"
    /\ ret.arg \notin {PyNone, PyStr(start), PyStr(end)}

\* C8 as stated: as_date with a default other than None, "start", "end"
\* fails with InvalidRangeDefault on any instance, fuzzy or not.
C8_BadDefaultAlwaysFails ==
    BadDefault => (ret.err = InvalidRangeDefault /\ ret.date = NoDate)

\* C8 amended: such a default fails with InvalidRangeDefault on a fuzzy
\* instance; on a non-fuzzy instance the default is not examined, no
\* InvalidRangeDefault is raised, and an instance with a month yields its
\* exact date.
C8_BadDefaultFailsWhenFuzzy ==
    BadDefault =>
        IF is_fuzzy(self)
        THEN ret.err = InvalidRangeDefault /\ ret.date = NoDate
        ELSE /\ ret.err # InvalidRangeDefault
             /\ self.month # <<>> =>
                    /\ ret.err = NoError
                    /\ ret.date = <<Num(self.year), Num(self.month), Num(self.day)>>

\* as_date("x") on a year-and-month instance raised InvalidRangeDefault
C8_Witness ==
    /\ ret.op = "as_date"
    /\ ret.arg = PyStr(<<"x">>)
    /\ self.month # <<>>
    /\ is_fuzzy(self)
    /\ ret.err = InvalidRangeDefault

\* leading zeros removed
RECURSIVE DropZeros(_)
DropZeros(s) == IF s # <<>> /\ s[1] = "0" THEN DropZeros(Tail(s)) ELSE s

Component(inst, el) ==
    IF el = "y" THEN inst.year ELSE IF el = "m" THEN inst.month ELSE inst.day

Shown(inst, el) ==
    IF TRIM_CHAR = <<"0">> THEN DropZeros(Component(inst, el)) ELSE Component(inst, el)

\* the present components in display order, each but the first preceded
\* by the separator
RECURSIVE Display(_, _, _)
Display(inst, order, started) ==
    IF order = <<>> THEN <<>>
    ELSE IF Component(inst, order[1]) = <<>> THEN Display(inst, Tail(order), started)
    ELSE (IF started THEN DATE_FIELD_SEPARATOR ELSE <<>>)
         \o Shown(inst, order[1]) \o Display(inst, Tail(order), TRUE)

\* C9: under every configuration the display string is the present
\* components in the configured order joined by the separator, zeros
\* stripped only when trimming is on; the canonical value is what the
\* components spell, whatever the configuration.
C9_Display ==
    ret.op = "str" =>
        /\ ret.text = Display(self, DATE_FIELD_ORDER, FALSE)
        /\ self.value = self.year \o <<".">>
                        \o (IF self.month = <<>> THEN <<"0", "0">> ELSE self.month) \o <<".">>
                        \o (IF self.day = <<>> THEN <<"0", "0">> ELSE self.day)

\* order ymd, separator "-", trimming on: year 2021 month 3 displayed "2021-3"
C9_Witness ==
    /\ ret.op = "str"
    /\ DATE_FIELD_ORDER = <<"y", "m", "d">>
    /\ DATE_FIELD_SEPARATOR = <<"-">>
    /\ TRIM_CHAR = <<"0">>
    /\ self.value = <<"2", "0", "2", "1", ".", "0", "3", ".", "0", "0">>
    /\ ret.text = <<"2", "0", "2", "1", "-", "3">>

\* C10: get_range() returns two non-fuzzy real calendar dates (s, e) that
\* agree with v on every component present in v (so s = e = v when v is
\* not fuzzy), with v <= s <= e in string order, and get_start and get_end
\* leave s and e unchanged.
C10_Range ==
    ret.op = "get_range" =>
        LET s == ret.first
            e == ret.second
        IN  /\ ret.err = NoError
            /\ \A x \in {s, e} :
                  /\ ~is_fuzzy(x)
                  /\ RealDate(Num(x.year), Num(x.month), Num(x.day))
                  /\ x.year = self.year
                  /\ self.month # <<>> => x.month = self.month
                  /\ self.day # <<>> => x.day = self.day
                  /\ get_start(x) = Result(NoError, x)
                  /\ get_end(x) = Result(NoError, x)
            /\ ~is_fuzzy(self) => (s = self /\ e = self)
            /\ StrCmp(self.value, s.value) <= 0
            /\ StrCmp(s.value, e.value) <= 0

====
